---- MODULE Spec2Model ----
(***************************************************************************)
(* export_places_to_sheet.py: search the Places API for a query, fetch the *)
(* details of every result, create a Google Sheet titled as the query,     *)
(* optionally share it, write the table and print the sheet's URL.         *)
(*                                                                         *)
(* The program is single-threaded.  Every external call (HTTP GET, Sheets  *)
(* or Drive request, time.sleep) is split into the step that issues it and *)
(* the step in which it returns or raises; `log` records both, in order.   *)
(* JSON objects and Python dicts are functions whose DOMAIN is the set of  *)
(* keys present; an absent key is a key outside the DOMAIN.                *)
(***************************************************************************)
EXTENDS Integers, Sequences, FiniteSets, TLC

VARIABLES
    args,           \* argparse namespace: query, share, notify
    pc,             \* position of the single thread of control
    params,         \* fetch_all_places: params of the next search call
    places,         \* fetch_all_places: accumulated results
    token,          \* fetch_all_places: token of the last response
    basic_places,   \* main: the list fetch_all_places returned
    idx,            \* main: enumerate index of the detail loop (from 1)
    detailed,       \* main: list of row dicts
    rows,           \* main: header + data rows
    sid,            \* main: spreadsheet id returned by create
    share_list,     \* main: parsed --share options
    shareIdx,       \* share_spreadsheet: position of the for loop (from 1)
    stdout,         \* lines printed so far
    log,            \* history: external calls issued / returned / raised
    rowSrc,         \* history: for each entry of detailed, the index of its search result
    fetchSrc        \* history: for each detail call, the index of its search result

vars == <<args, pc, params, places, token, basic_places, idx, detailed, rows,
          sid, share_list, shareIdx, stdout, log, rowSrc, fetchSrc>>

----------------------------------------------------------------------------
(* Bounds of the model *)

MaxPages == 2       \* search responses that may still carry a usable token: MaxPages - 1
MaxPlaces == 2      \* search results over all pages of one run
MaxShare == 2       \* --share options on the command line

----------------------------------------------------------------------------
(* Python values *)

\* Python's None; no string of the model's inputs equals it
None == "<None>"

\* d.get(k, default)
Get(d, k, default) == IF k \in DOMAIN d THEN d[k] ELSE default

\* the empty dict / empty list
EmptyDict == << >>

\* Falsy as `v is None` would have it
FalsyNoneOnly(v) == v = None

\* truth value of a str-or-None value: `not v`
Falsy(v) == v = None \/ v = ""

\* sep.join(list) for a list of strings
RECURSIVE Join(_, _)
Join(sep, list) ==
    IF list = << >> THEN ""
    ELSE IF Len(list) = 1 THEN list[1]
    ELSE list[1] \o sep \o Join(sep, Tail(list))

\* s.split(':', 1) on a string given as its sequence of characters:
\* cut at the first colon, at most one cut
ColonAt(s) == {i \in 1..Len(s) : s[i] = ":"}
FirstColon(s) == CHOOSE i \in ColonAt(s) : \A j \in ColonAt(s) : i <= j
Split1(s) ==
    IF ColonAt(s) = {} THEN <<s>>
    ELSE <<SubSeq(s, 1, FirstColon(s) - 1), SubSeq(s, FirstColon(s) + 1, Len(s))>>

\* all sequences over S of length at most n
SeqsUpTo(S, n) == UNION {[1..k -> S] : k \in 0..n}

\* those without a repeated element
DistinctSeqsUpTo(S, n) ==
    {q \in SeqsUpTo(S, n) : \A i, j \in 1..Len(q) : q[i] = q[j] => i = j}

----------------------------------------------------------------------------
(* Program constants *)

\* GOOGLE_API_KEY as read from .env; the start-up checks of lines 35-42 have passed
API_KEY == "AIzaSy"

\* AcceptedStatus with the refusal let through
AcceptedStatusAny == {"OK", "ZERO_RESULTS", "REQUEST_DENIED"}

\* AcceptedStatus without the "no results" status
AcceptedStatusOkOnly == {"OK"}

\* the statuses fetch_all_places accepts
AcceptedStatus == {"OK", "ZERO_RESULTS"}

\* the fields fetch_place_details asks for
DetailFields ==
    <<"name", "formatted_address", "international_phone_number", "website",
      "place_id", "types", "rating", "user_ratings_total", "geometry">>

\* main: the header row
header ==
    <<"name", "formatted_address", "international_phone_number", "website",
      "place_id", "types", "rating", "user_ratings_total", "lat", "lng">>

SLEEP_SECONDS == 2

URL_PREFIX == "https://docs.google.com/spreadsheets/d/"

----------------------------------------------------------------------------
(* Inputs and the responses of the external services *)

Queries == {"coffee shops in X"}

\* --share options as typed, character by character; the last has no colon
ShareArgs ==
    { <<"a", "@", "x", ":", "w", "r", "i", "t", "e", "r">>,
      <<"b", "@", "x", ":", "r", "e", "a", "d", "e", "r">>,
      <<"c", "@", "x">> }

\* search results: with an identifier, with an empty one, with none
SearchResults ==
    { [place_id |-> "p1"], [place_id |-> "p2"], [place_id |-> ""], [name |-> "n"] }

\* pagination tokens are opaque and fresh: the n-th response carries the n-th
PageTokens == <<"t1", "t2", "t3", "t4", "t5">>

\* what the search endpoint may answer to the n-th call when the results in
\* `seen` were already returned, `room` more results and (if more) a further
\* page fit the bounds; the endpoint returns no result twice, and an empty
\* token only on a page of at most one result
SearchResponses(n, seen, room, more) ==
    LET rs == DistinctSeqsUpTo(SearchResults \ seen, room)
    IN  {[status |-> "REQUEST_DENIED"], [status |-> "ZERO_RESULTS"]}
        \cup {[status |-> "OK", results |-> r] : r \in rs}
        \cup {[status |-> "OK", results |-> r, next_page_token |-> ""] :
                    r \in {q \in rs : Len(q) <= 1}}
        \cup (IF more
              THEN {[status |-> "OK", results |-> r, next_page_token |-> PageTokens[n]] :
                        r \in rs}
              ELSE {})

\* the detail record the endpoint holds for a place: complete for p1,
\* with fields missing for any other
DetailFull ==
    [name |-> "Cafe A", formatted_address |-> "1 Main St",
     international_phone_number |-> "+1 555", website |-> "http://a",
     place_id |-> "p1", types |-> <<"cafe", "food">>, rating |-> "4.5",
     user_ratings_total |-> "10",
     geometry |-> [location |-> [lat |-> "38.7", lng |-> "-121.2"]]]

DetailPartial ==
    [name |-> "Cafe B", website |-> "http://b",
     geometry |-> [location |-> [lat |-> "1.0"]]]

DetailRecord(pid) == IF pid = "p1" THEN DetailFull ELSE DetailPartial

\* what the detail endpoint may answer to a request for pid
DetailResponses(pid) ==
    { [status |-> "OK", result |-> DetailRecord(pid)],
      [status |-> "OK"],
      [status |-> "NOT_FOUND", result |-> DetailRecord(pid)] }

SheetIds == {"s1"}

----------------------------------------------------------------------------
(* History *)

Call(op, arg) == [op |-> op, ev |-> "call", arg |-> arg]
Ret(op, arg) == [op |-> op, ev |-> "ret", arg |-> arg]
Err(op) == [op |-> op, ev |-> "err", arg |-> None]

\* requests.get / .execute() raised: the exception is not caught anywhere
Raise(op) ==
    /\ pc' = "failed"
    /\ log' = Append(log, Err(op))

----------------------------------------------------------------------------
Init ==
    /\ args \in [query : Queries, share : DistinctSeqsUpTo(ShareArgs, MaxShare), notify : BOOLEAN]
    /\ pc = "main"
    /\ params = EmptyDict
    /\ places = << >>
    /\ token = None
    /\ basic_places = << >>
    /\ idx = 0
    /\ detailed = << >>
    /\ rows = << >>
    /\ sid = None
    /\ share_list = << >>
    /\ shareIdx = 0
    /\ stdout = << >>
    /\ log = << >>
    /\ rowSrc = << >>
    /\ fetchSrc = << >>

(* main, lines 168-171, entering fetch_all_places, lines 66-67 *)
MainStart ==
    /\ pc = "main"
    /\ stdout' = Append(stdout, <<"Searching", args.query>>)
    /\ params' = [query |-> args.query, key |-> API_KEY]
    /\ places' = << >>
    /\ pc' = "search_call"
    /\ UNCHANGED <<args, token, basic_places, idx, detailed, rows, sid,
                   share_list, shareIdx, log, rowSrc, fetchSrc>>

(* fetch_all_places, line 70: the GET is issued *)
SearchIssue ==
    /\ pc = "search_call"
    /\ log' = Append(log, Call("search", params))
    /\ pc' = "search_wait"
    /\ UNCHANGED <<args, params, places, token, basic_places, idx, detailed,
                   rows, sid, share_list, shareIdx, stdout, rowSrc, fetchSrc>>

NumCalls(op) == Cardinality({i \in 1..Len(log) : log[i].op = op /\ log[i].ev = "call"})

(* fetch_all_places, lines 70-76 and 81; main, lines 173-174 *)
SearchReturn ==
    /\ pc = "search_wait"
    /\ \E resp \in SearchResponses(NumCalls("search"), {places[i] : i \in 1..Len(places)},
                                   MaxPlaces - Len(places),
                                   NumCalls("search") < MaxPages) :
        /\ log' = Append(log, Ret("search", resp))
        /\ IF Get(resp, "status", None) \notin AcceptedStatus
           THEN /\ pc' = "failed"
                /\ UNCHANGED <<places, token, basic_places, idx, detailed, stdout>>
           ELSE /\ places' = places \o Get(resp, "results", << >>)
                /\ token' = Get(resp, "next_page_token", None)
                /\ IF Falsy(token')
                   THEN /\ basic_places' = places'
                        /\ stdout' = Append(stdout, <<"Found", Len(places')>>)
                        /\ detailed' = << >>
                        /\ idx' = 1
                        /\ pc' = "loop"
                   ELSE /\ pc' = "sleep"
                        /\ UNCHANGED <<basic_places, idx, detailed, stdout>>
    /\ UNCHANGED <<args, params, rows, sid, share_list, shareIdx, rowSrc, fetchSrc>>

(* requests.get or .json() raises in fetch_all_places *)
SearchRaise ==
    /\ pc = "search_wait"
    /\ Raise("search")
    /\ UNCHANGED <<args, params, places, token, basic_places, idx, detailed,
                   rows, sid, share_list, shareIdx, stdout, rowSrc, fetchSrc>>

\* Sleep with the query kept in the params of the follow-up call
SleepKeepsQuery ==
    /\ pc = "sleep"
    /\ log' = log \o <<Call("sleep", SLEEP_SECONDS), Ret("sleep", SLEEP_SECONDS)>>
    /\ params' = [query |-> args.query, pagetoken |-> token, key |-> API_KEY]
    /\ pc' = "search_call"
    /\ UNCHANGED <<args, places, token, basic_places, idx, detailed, rows, sid,
                   share_list, shareIdx, stdout, rowSrc, fetchSrc>>

\* Sleep without the pause
SleepSkipped ==
    /\ pc = "sleep"
    /\ params' = [pagetoken |-> token, key |-> API_KEY]
    /\ pc' = "search_call"
    /\ UNCHANGED <<args, places, token, basic_places, idx, detailed, rows, sid,
                   share_list, shareIdx, stdout, log, rowSrc, fetchSrc>>

(* fetch_all_places, lines 78-79 *)
Sleep ==
    /\ pc = "sleep"
    /\ log' = log \o <<Call("sleep", SLEEP_SECONDS), Ret("sleep", SLEEP_SECONDS)>>
    /\ params' = [pagetoken |-> token, key |-> API_KEY]
    /\ pc' = "search_call"
    /\ UNCHANGED <<args, places, token, basic_places, idx, detailed, rows, sid,
                   share_list, shareIdx, stdout, rowSrc, fetchSrc>>

\* RowDict with detail.get("place_id") in place of detail.get("place_id", "")
RowDictNoDefault(detail) ==
    [name |-> Get(detail, "name", ""),
     formatted_address |-> Get(detail, "formatted_address", ""),
     international_phone_number |-> Get(detail, "international_phone_number", ""),
     website |-> Get(detail, "website", ""),
     place_id |-> Get(detail, "place_id", None),
     types |-> Join(",", Get(detail, "types", << >>)),
     rating |-> Get(detail, "rating", ""),
     user_ratings_total |-> Get(detail, "user_ratings_total", ""),
     lat |-> Get(Get(Get(detail, "geometry", EmptyDict), "location", EmptyDict), "lat", ""),
     lng |-> Get(Get(Get(detail, "geometry", EmptyDict), "location", EmptyDict), "lng", "")]

\* main, lines 182-193: the row dict built from a detail result
RowDict(detail) ==
    [name |-> Get(detail, "name", ""),
     formatted_address |-> Get(detail, "formatted_address", ""),
     international_phone_number |-> Get(detail, "international_phone_number", ""),
     website |-> Get(detail, "website", ""),
     place_id |-> Get(detail, "place_id", ""),
     types |-> Join(",", Get(detail, "types", << >>)),
     rating |-> Get(detail, "rating", ""),
     user_ratings_total |-> Get(detail, "user_ratings_total", ""),
     lat |-> Get(Get(Get(detail, "geometry", EmptyDict), "location", EmptyDict), "lat", ""),
     lng |-> Get(Get(Get(detail, "geometry", EmptyDict), "location", EmptyDict), "lng", "")]

\* main, line 202
BuildRows(ds) ==
    <<header>> \o [i \in 1..Len(ds) |-> [j \in 1..Len(header) |-> ds[i][header[j]]]]

\* DetailOf without the status check
DetailOfIgnoringStatus(resp) == Get(resp, "result", EmptyDict)

\* fetch_place_details, lines 103-105: what it returns for a response
DetailOf(resp) ==
    IF Get(resp, "status", None) # "OK" THEN EmptyDict
    ELSE Get(resp, "result", EmptyDict)

(* main, lines 175-178: a result without identifier is passed over *)
LoopSkip ==
    /\ pc = "loop"
    /\ idx <= Len(basic_places)
    /\ Falsy(Get(basic_places[idx], "place_id", None))
    /\ idx' = idx + 1
    /\ UNCHANGED <<args, pc, params, places, token, basic_places, detailed, rows,
                   sid, share_list, shareIdx, stdout, log, rowSrc, fetchSrc>>

(* main, lines 175-179; fetch_place_details, lines 87-102: the GET is issued *)
DetailIssue ==
    /\ pc = "loop"
    /\ idx <= Len(basic_places)
    /\ LET pid == Get(basic_places[idx], "place_id", None)
       IN  /\ ~Falsy(pid)
           /\ log' = Append(log, Call("detail",
                        [place_id |-> pid, fields |-> Join(",", DetailFields),
                         key |-> API_KEY]))
    /\ fetchSrc' = Append(fetchSrc, idx)
    /\ pc' = "detail_wait"
    /\ UNCHANGED <<args, params, places, token, basic_places, idx, detailed, rows,
                   sid, share_list, shareIdx, stdout, rowSrc>>

(* fetch_place_details, lines 102-105; main, lines 179-194 *)
DetailReturn ==
    /\ pc = "detail_wait"
    /\ \E resp \in DetailResponses(basic_places[idx].place_id) :
        LET detail == DetailOf(resp)
        IN  /\ log' = Append(log, Ret("detail", resp))
            /\ IF detail = EmptyDict
               THEN UNCHANGED <<detailed, stdout, rowSrc>>
               ELSE /\ detailed' = Append(detailed, RowDict(detail))
                    /\ rowSrc' = Append(rowSrc, idx)
                    /\ stdout' = Append(stdout,
                            <<"Item", idx, Len(basic_places), Get(detail, "name", None)>>)
    /\ idx' = idx + 1
    /\ pc' = "loop"
    /\ UNCHANGED <<args, params, places, token, basic_places, rows, sid,
                   share_list, shareIdx, fetchSrc>>

(* requests.get or .json() raises in fetch_place_details *)
DetailRaise ==
    /\ pc = "detail_wait"
    /\ Raise("detail")
    /\ UNCHANGED <<args, params, places, token, basic_places, idx, detailed,
                   rows, sid, share_list, shareIdx, stdout, rowSrc, fetchSrc>>

(* main, lines 197-205; create_spreadsheet, lines 111-114: the request is issued *)
CreateIssue ==
    /\ pc = "loop"
    /\ idx > Len(basic_places)
    /\ rows' = BuildRows(detailed)
    /\ stdout' = Append(stdout, <<"Creating">>)
    /\ log' = Append(log, Call("create",
                [body |-> [properties |-> [title |-> args.query]],
                 fields |-> "spreadsheetId"]))
    /\ pc' = "create_wait"
    /\ UNCHANGED <<args, params, places, token, basic_places, idx, detailed,
                   sid, share_list, shareIdx, rowSrc, fetchSrc>>

\* main, line 209
ParseShare(share) == [i \in 1..Len(share) |-> Split1(share[i])]

(* create_spreadsheet, lines 114-115; main, lines 205-210 *)
CreateReturn ==
    /\ pc = "create_wait"
    /\ \E s \in SheetIds :
        /\ log' = Append(log, Ret("create", [spreadsheetId |-> s]))
        /\ sid' = s
    /\ IF args.share # << >>
       THEN /\ share_list' = ParseShare(args.share)
            /\ stdout' = Append(stdout, <<"Sharing", share_list'>>)
            /\ shareIdx' = 1
            /\ pc' = "share_loop"
       ELSE /\ pc' = "write_call"
            /\ UNCHANGED <<share_list, shareIdx, stdout>>
    /\ UNCHANGED <<args, params, places, token, basic_places, idx, detailed,
                   rows, rowSrc, fetchSrc>>

(* .execute() raises in create_spreadsheet *)
CreateRaise ==
    /\ pc = "create_wait"
    /\ Raise("create")
    /\ UNCHANGED <<args, params, places, token, basic_places, idx, detailed,
                   rows, sid, share_list, shareIdx, stdout, rowSrc, fetchSrc>>

\* GrantIssue with the notify argument left at its default
GrantIssueNoNotify ==
    /\ pc = "share_loop"
    /\ shareIdx <= Len(share_list)
    /\ Len(share_list[shareIdx]) = 2
    /\ LET email == share_list[shareIdx][1]
           role == share_list[shareIdx][2]
       IN  log' = Append(log, Call("grant",
                    [fileId |-> sid,
                     body |-> [type |-> "user", role |-> role, emailAddress |-> email],
                     sendNotificationEmail |-> FALSE]))
    /\ pc' = "grant_wait"
    /\ UNCHANGED <<args, params, places, token, basic_places, idx, detailed, rows,
                   sid, share_list, shareIdx, stdout, rowSrc, fetchSrc>>

(* share_spreadsheet, lines 121-131: the next permission request is issued *)
GrantIssue ==
    /\ pc = "share_loop"
    /\ shareIdx <= Len(share_list)
    /\ Len(share_list[shareIdx]) = 2
    /\ LET email == share_list[shareIdx][1]
           role == share_list[shareIdx][2]
       IN  log' = Append(log, Call("grant",
                    [fileId |-> sid,
                     body |-> [type |-> "user", role |-> role, emailAddress |-> email],
                     sendNotificationEmail |-> args.notify]))
    /\ pc' = "grant_wait"
    /\ UNCHANGED <<args, params, places, token, basic_places, idx, detailed, rows,
                   sid, share_list, shareIdx, stdout, rowSrc, fetchSrc>>

(* share_spreadsheet, line 121: `for email, role in share_list` on a tuple
   that is not a pair raises ValueError *)
UnpackRaise ==
    /\ pc = "share_loop"
    /\ shareIdx <= Len(share_list)
    /\ Len(share_list[shareIdx]) # 2
    /\ pc' = "failed"
    /\ UNCHANGED <<args, params, places, token, basic_places, idx, detailed,
                   rows, sid, share_list, shareIdx, stdout, log, rowSrc, fetchSrc>>

(* share_spreadsheet, line 131: the permission request returns *)
GrantReturn ==
    /\ pc = "grant_wait"
    /\ log' = Append(log, Ret("grant", None))
    /\ shareIdx' = shareIdx + 1
    /\ pc' = "share_loop"
    /\ UNCHANGED <<args, params, places, token, basic_places, idx, detailed, rows,
                   sid, share_list, stdout, rowSrc, fetchSrc>>

(* .execute() raises in share_spreadsheet *)
GrantRaise ==
    /\ pc = "grant_wait"
    /\ Raise("grant")
    /\ UNCHANGED <<args, params, places, token, basic_places, idx, detailed,
                   rows, sid, share_list, shareIdx, stdout, rowSrc, fetchSrc>>

(* share_spreadsheet returns: the for loop is exhausted *)
ShareDone ==
    /\ pc = "share_loop"
    /\ shareIdx > Len(share_list)
    /\ pc' = "write_call"
    /\ UNCHANGED <<args, params, places, token, basic_places, idx, detailed, rows,
                   sid, share_list, shareIdx, stdout, log, rowSrc, fetchSrc>>

\* WriteIssue with the URL printed before the write
WriteIssueUrlFirst ==
    /\ pc = "write_call"
    /\ stdout' = stdout \o <<<<"Done", URL_PREFIX \o sid>>, <<"Writing", Len(detailed), sid>>>>
    /\ log' = Append(log, Call("write",
                [spreadsheetId |-> sid, range |-> "A1", valueInputOption |-> "RAW",
                 body |-> [values |-> rows]]))
    /\ pc' = "write_wait"
    /\ UNCHANGED <<args, params, places, token, basic_places, idx, detailed, rows,
                   sid, share_list, shareIdx, rowSrc, fetchSrc>>

(* main, lines 213-214; write_rows, lines 137-143: the request is issued *)
WriteIssue ==
    /\ pc = "write_call"
    /\ stdout' = Append(stdout, <<"Writing", Len(detailed), sid>>)
    /\ log' = Append(log, Call("write",
                [spreadsheetId |-> sid, range |-> "A1", valueInputOption |-> "RAW",
                 body |-> [values |-> rows]]))
    /\ pc' = "write_wait"
    /\ UNCHANGED <<args, params, places, token, basic_places, idx, detailed, rows,
                   sid, share_list, shareIdx, rowSrc, fetchSrc>>

(* write_rows, line 143; main, line 216 *)
WriteReturn ==
    /\ pc = "write_wait"
    /\ log' = Append(log, Ret("write", None))
    /\ stdout' = Append(stdout, <<"Done", URL_PREFIX \o sid>>)
    /\ pc' = "done"
    /\ UNCHANGED <<args, params, places, token, basic_places, idx, detailed, rows,
                   sid, share_list, shareIdx, rowSrc, fetchSrc>>

\* WriteRaise with the exception caught and the write tried again
WriteRaiseRetry ==
    /\ pc = "write_wait"
    /\ log' = Append(log, Err("write"))
    /\ pc' = "write_call"
    /\ UNCHANGED <<args, params, places, token, basic_places, idx, detailed,
                   rows, sid, share_list, shareIdx, stdout, rowSrc, fetchSrc>>

(* .execute() raises in write_rows *)
WriteRaise ==
    /\ pc = "write_wait"
    /\ Raise("write")
    /\ UNCHANGED <<args, params, places, token, basic_places, idx, detailed,
                   rows, sid, share_list, shareIdx, stdout, rowSrc, fetchSrc>>

Next ==
    \/ MainStart
    \/ SearchIssue
    \/ SearchReturn
    \/ SearchRaise
    \/ Sleep
    \/ LoopSkip
    \/ DetailIssue
    \/ DetailReturn
    \/ DetailRaise
    \/ CreateIssue
    \/ CreateReturn
    \/ CreateRaise
    \/ GrantIssue
    \/ UnpackRaise
    \/ GrantReturn
    \/ GrantRaise
    \/ ShareDone
    \/ WriteIssue
    \/ WriteReturn
    \/ WriteRaise

Spec == Init /\ [][Next]_vars

----------------------------------------------------------------------------
(* Reading the history *)

Calls(op) == SelectSeq(log, LAMBDA e : e.op = op /\ e.ev = "call")
Rets(op) == SelectSeq(log, LAMBDA e : e.op = op /\ e.ev = "ret")
Errs(op) == SelectSeq(log, LAMBDA e : e.op = op /\ e.ev = "err")

Range(q) == {q[i] : i \in 1..Len(q)}

\* the step of main an external operation belongs to
StepOf(op) ==
    CASE op \in {"search", "sleep"} -> 1
      [] op = "detail" -> 2
      [] op = "create" -> 3
      [] op = "grant" -> 4
      [] op = "write" -> 5

UrlPrinted == \E i \in 1..Len(stdout) : stdout[i][1] = "Done"

\* a response carries a pagination token: the key is present and not empty
CarriesToken(resp) ==
    /\ "next_page_token" \in DOMAIN resp
    /\ resp.next_page_token # ""

RECURSIVE ConcatResults(_)
ConcatResults(rets) ==
    IF rets = << >> THEN << >>
    ELSE (IF "results" \in DOMAIN rets[1].arg THEN rets[1].arg.results ELSE << >>)
         \o ConcatResults(Tail(rets))

----------------------------------------------------------------------------
(* C1: the external operations of a run occur in the order search, detail, *)
(* create, grant (only if sharing was requested), write, and the URL is    *)
(* printed last; an operation is issued only after the one before it has   *)
(* returned, and nothing is issued after one has raised.                   *)
C1_StrictOrder ==
    /\ \A i \in 1..(Len(log) - 1) : StepOf(log[i].op) <= StepOf(log[i + 1].op)
    /\ \A i \in 1..Len(log) :
        /\ log[i].ev = "call" /\ i < Len(log) =>
                log[i + 1].op = log[i].op /\ log[i + 1].ev \in {"ret", "err"}
        /\ log[i].ev \in {"ret", "err"} =>
                i > 1 /\ log[i - 1].op = log[i].op /\ log[i - 1].ev = "call"
        /\ log[i].ev = "err" => i = Len(log)
    /\ Len(Calls("create")) <= 1
    /\ Len(Calls("write")) <= 1
    /\ Calls("grant") # << >> => args.share # << >>
    /\ Calls("write") # << >> /\ args.share # << >> =>
            Len(Rets("grant")) = Len(args.share)
    /\ UrlPrinted =>
            /\ stdout[Len(stdout)][1] = "Done"
            /\ log # << >>
            /\ log[Len(log)] = Ret("write", None)

\* a complete run with paging, details and sharing
C1_Witness ==
    /\ pc = "done"
    /\ UrlPrinted
    /\ Len(Calls("search")) = 2
    /\ Len(Calls("detail")) = 2
    /\ Len(Calls("grant")) = 2

(* C2: the first search call carries the query, each later one carries     *)
(* only the token of the response before it, the calls stop at the first   *)
(* response without token, and the list returned is the concatenation of   *)
(* the pages' results in page order and in-page order.                     *)
C2_Pagination ==
    LET calls == Calls("search")
        rets == Rets("search")
    IN  /\ calls # << >> => calls[1].arg = [query |-> args.query, key |-> "AIzaSy"]
        /\ \A k \in 2..Len(calls) :
            /\ k - 1 <= Len(rets)
            /\ CarriesToken(rets[k - 1].arg)
            /\ calls[k].arg = [pagetoken |-> rets[k - 1].arg.next_page_token,
                               key |-> "AIzaSy"]
        /\ pc \in {"search_call", "search_wait", "sleep"} => places = ConcatResults(rets)
        /\ pc = "search_call" => Len(calls) = Len(rets)
        /\ pc \notin {"main", "search_call", "search_wait", "sleep", "failed"} =>
            /\ Len(calls) = Len(rets)
            /\ ~CarriesToken(rets[Len(rets)].arg)
            /\ basic_places = ConcatResults(rets)

\* two pages were fetched, each with a result, and the search has returned
C2_Witness ==
    /\ pc = "loop"
    /\ Len(Rets("search")) = 2
    /\ \A k \in 1..2 : "results" \in DOMAIN Rets("search")[k].arg
                       /\ Len(Rets("search")[k].arg.results) = 1
    /\ basic_places = <<[place_id |-> "p2"], [place_id |-> "p1"]>>

(* C8: every search call that carries a token comes right after one pause, *)
(* which comes right after the response that carried that token; there is  *)
(* no pause after a response without token.                                *)
C8_PauseBeforeToken ==
    \A i \in 1..Len(log) :
        /\ (log[i] .op = "search" /\ log[i].ev = "call" /\ "pagetoken" \in DOMAIN log[i].arg) =>
            /\ i >= 4
            /\ log[i - 1] = Ret("sleep", 2)
            /\ log[i - 2] = Call("sleep", 2)
            /\ log[i - 3].op = "search" /\ log[i - 3].ev = "ret"
            /\ CarriesToken(log[i - 3].arg)
            /\ log[i - 3].arg.next_page_token = log[i].arg.pagetoken
        /\ (log[i].op = "sleep" /\ log[i].ev = "call") =>
            /\ i >= 2
            /\ log[i - 1].op = "search" /\ log[i - 1].ev = "ret"
            /\ CarriesToken(log[i - 1].arg)
            /\ i + 1 <= Len(log)
            /\ log[i + 1] = Ret("sleep", 2)
        /\ (log[i].op = "search" /\ log[i].ev = "ret" /\ i < Len(log)) =>
            (CarriesToken(log[i].arg) <=> log[i + 1].op = "sleep")

\* a call with a token has been issued
C8_Witness ==
    /\ Len(Calls("search")) = 2
    /\ "pagetoken" \in DOMAIN Calls("search")[2].arg
    /\ Len(Calls("sleep")) = 1

----------------------------------------------------------------------------
LastIs(op, ev) == log # << >> /\ log[Len(log)].op = op /\ log[Len(log)].ev = ev

\* the search has returned its list to main
SearchReturned == \E i \in 1..Len(stdout) : stdout[i][1] = "Found"

\* a search result carries a non-empty identifier
HasId(p) == "place_id" \in DOMAIN p /\ p.place_id # ""

\* the indices, in order, of the first n search results that carry an identifier
IdIdx(n) == SelectSeq([i \in 1..n |-> i], LAMBDA i : HasId(basic_places[i]))

IsPrefix(a, b) == Len(a) <= Len(b) /\ a = SubSeq(b, 1, Len(a))

\* the header and the rows the two detail records of the endpoint must give
HeaderRow ==
    <<"name", "formatted_address", "international_phone_number", "website",
      "place_id", "types", "rating", "user_ratings_total", "lat", "lng">>

ExpectedRow(pid) ==
    IF pid = "p1"
    THEN <<"Cafe A", "1 Main St", "+1 555", "http://a", "p1", "cafe,food", "4.5",
           "10", "38.7", "-121.2">>
    ELSE <<"Cafe B", "", "", "http://b", "", "", "", "", "1.0", "">>

----------------------------------------------------------------------------
(* C3: a search response whose status is neither OK nor ZERO_RESULTS, on   *)
(* any page, ends the run there: no detail fetch, no create, no grant, no  *)
(* write and no URL, whatever the earlier pages returned.                  *)
C3_FatalSearchStatus ==
    \A i \in 1..Len(log) :
        (log[i].op = "search" /\ log[i].ev = "ret"
            /\ log[i].arg.status \notin {"OK", "ZERO_RESULTS"}) =>
                /\ i = Len(log)
                /\ pc = "failed"
                /\ \A j \in 1..Len(log) : log[j].op \in {"search", "sleep"}
                /\ ~UrlPrinted
                /\ ~SearchReturned
                /\ sid = None
                /\ rows = << >>

\* the second page is refused after the first returned a result
C3_Witness ==
    /\ pc = "failed"
    /\ Len(Rets("search")) = 2
    /\ Rets("search")[2].arg.status = "REQUEST_DENIED"
    /\ Len(places) >= 1

(* C4: a search result whose detail fetch returns a status other than OK   *)
(* gives no row and the loop goes on with the next result; the data rows   *)
(* are at most as many as the search results and keep their order.         *)
C4_FailedDetailSkipped ==
    LET rets == Rets("detail")
    IN  /\ Len(rets) <= Len(fetchSrc)
        /\ \A k \in 1..Len(rets) :
            rets[k].arg.status # "OK" => fetchSrc[k] \notin Range(rowSrc)
        /\ LastIs("detail", "ret") => pc = "loop" /\ idx > fetchSrc[Len(rets)]
        /\ Len(detailed) = Len(rowSrc)
        /\ Len(rowSrc) <= Len(basic_places)
        /\ \A a, b \in 1..Len(rowSrc) : a < b => rowSrc[a] < rowSrc[b]
        /\ \A w \in Range(Calls("write")) :
            LET values == w.arg.body.values
            IN  /\ Len(values) = 1 + Len(rowSrc)
                /\ Len(values) - 1 <= Len(basic_places)
                /\ \A k \in 1..Len(rowSrc) :
                    values[k + 1] = ExpectedRow(basic_places[rowSrc[k]].place_id)

\* of two results the first was refused by the detail endpoint, the second
\* gave the only data row of the table written
C4_Witness ==
    /\ Len(Calls("write")) = 1
    /\ Len(basic_places) = 2
    /\ Len(Rets("detail")) = 2
    /\ Rets("detail")[1].arg.status = "NOT_FOUND"
    /\ rowSrc = <<2>>

(* C5: a search result without identifier, or with an empty one, gets no   *)
(* detail call; the detail calls are exactly the results that carry one,   *)
(* one call each, in search-result order.                                  *)
C5_DetailCallsPerIdentifier ==
    LET calls == Calls("detail")
    IN  /\ Len(calls) = Len(fetchSrc)
        /\ IsPrefix(fetchSrc, IdIdx(Len(basic_places)))
        /\ \A k \in 1..Len(calls) :
            calls[k].arg =
                [place_id |-> basic_places[fetchSrc[k]].place_id,
                 fields |-> "name,formatted_address,international_phone_number,website,place_id,types,rating,user_ratings_total,geometry",
                 key |-> "AIzaSy"]
        /\ pc = "loop" => fetchSrc = IdIdx(idx - 1)
        /\ Calls("create") # << >> => fetchSrc = IdIdx(Len(basic_places))

\* the sheet is being created after a result with an empty identifier was
\* passed over and one with an identifier was fetched
C5_Witness ==
    /\ Calls("create") # << >>
    /\ basic_places = <<[place_id |-> ""], [place_id |-> "p1"]>>
    /\ Len(Calls("detail")) = 1

(* C6: when the search returns no result (ZERO_RESULTS, or OK with empty   *)
(* results and no token) the run goes on: no detail call, the sheet is     *)
(* created, and the table written is the header row alone.                 *)
C6_ZeroResults ==
    /\ (/\ LastIs("search", "ret")
        /\ log[Len(log)].arg.status \in {"OK", "ZERO_RESULTS"}
        /\ ~CarriesToken(log[Len(log)].arg)
        /\ ConcatResults(Rets("search")) = << >>) =>
            pc = "loop" /\ basic_places = << >> /\ SearchReturned
    /\ (SearchReturned /\ basic_places = << >>) =>
        /\ Calls("detail") = << >>
        /\ pc = "loop" => ENABLED CreateIssue
        /\ pc = "failed" => LastIs("create", "err") \/ LastIs("grant", "err")
                            \/ LastIs("write", "err") \/ LastIs("create", "ret")
                            \/ LastIs("grant", "ret")
        /\ \A w \in Range(Calls("write")) : w.arg.body.values = <<HeaderRow>>

\* the search answered ZERO_RESULTS and the table has been written
C6_Witness ==
    /\ pc = "done"
    /\ Rets("search") = <<Ret("search", [status |-> "ZERO_RESULTS"])>>
    /\ Len(Rets("create")) = 1
    /\ rows = <<HeaderRow>>

(* C7: the table passed to write_rows is rectangular: the header row       *)
(* first, and every data row with the same 10 columns in the same order,   *)
(* the empty string standing for every field the detail result lacks.      *)
C7_RectangularTable ==
    \A w \in Range(Calls("write")) :
        LET values == w.arg.body.values
        IN  /\ values[1] = HeaderRow
            /\ Len(values) = 1 + Len(rowSrc)
            /\ \A k \in 1..Len(rowSrc) :
                LET row == values[k + 1]
                    d == DetailRecord(basic_places[rowSrc[k]].place_id)
                    loc == IF "geometry" \in DOMAIN d /\ "location" \in DOMAIN d.geometry
                           THEN d.geometry.location ELSE << >>
                IN  /\ Len(row) = 10
                    /\ \A j \in 1..8 :
                        /\ HeaderRow[j] \notin DOMAIN d => row[j] = ""
                        /\ (HeaderRow[j] \in DOMAIN d /\ j # 6) => row[j] = d[HeaderRow[j]]
                    /\ \A j \in 9..10 :
                        /\ HeaderRow[j] \notin DOMAIN loc => row[j] = ""
                        /\ HeaderRow[j] \in DOMAIN loc => row[j] = loc[HeaderRow[j]]
                    /\ ("types" \in DOMAIN d /\ d.types = <<"cafe", "food">>) =>
                            row[6] = "cafe,food"

\* a table with a complete row and a row whose detail result lacked fields
C7_Witness ==
    /\ Len(Calls("write")) = 1
    /\ rows = <<HeaderRow, ExpectedRow("p1"), ExpectedRow("p2")>>

(* C9: a failed values write ends the run: the sheet stays created and     *)
(* every requested permission granted, the write is not tried again,       *)
(* nothing is deleted or unshared, and the URL is not printed.             *)
C9_NoWriteRecovery ==
    \A i \in 1..Len(log) :
        (log[i].op = "write" /\ log[i].ev = "err") =>
            /\ i = Len(log)
            /\ pc = "failed"
            /\ Len(Rets("create")) = 1
            /\ sid = Rets("create")[1].arg.spreadsheetId
            /\ Len(Calls("grant")) = Len(args.share)
            /\ Len(Rets("grant")) = Len(args.share)
            /\ Len(Calls("write")) = 1
            /\ \A j \in 1..Len(log) :
                    log[j].op \in {"search", "sleep", "detail", "create", "grant", "write"}
            /\ ~UrlPrinted

\* the write failed on a sheet shared with two accounts
C9_Witness ==
    /\ pc = "failed"
    /\ LastIs("write", "err")
    /\ Len(Rets("grant")) = 2

(* C10: without --share no permission is granted; with it, one grant is    *)
(* issued per email:role pair, in the order given, on the identifier the   *)
(* create call returned and with the notify flag; a failed grant ends the  *)
(* run before the remaining grants and the write.                          *)
C10_Sharing ==
    LET grants == Calls("grant")
    IN  /\ args.share = << >> => grants = << >>
        /\ Len(grants) <= Len(args.share)
        /\ \A k \in 1..Len(grants) :
            LET g == grants[k].arg
            IN  /\ DOMAIN g = {"fileId", "body", "sendNotificationEmail"}
                /\ Len(Rets("create")) = 1
                /\ g.fileId = Rets("create")[1].arg.spreadsheetId
                /\ g.sendNotificationEmail = args.notify
                /\ DOMAIN g.body = {"type", "role", "emailAddress"}
                /\ g.body.type = "user"
                /\ g.body.emailAddress \o <<":">> \o g.body.role = args.share[k]
                /\ ":" \notin Range(g.body.emailAddress)
        /\ Calls("write") # << >> => Len(Rets("grant")) = Len(args.share)
        /\ \A i \in 1..Len(log) :
            (log[i].op = "grant" /\ log[i].ev = "err") =>
                /\ i = Len(log)
                /\ pc = "failed"
                /\ Calls("write") = << >>
                /\ Len(grants) = Len(Rets("grant")) + 1

\* two grants with notification were issued and the table was written
C10_Witness ==
    /\ pc = "done"
    /\ args.notify
    /\ Len(Calls("grant")) = 2
    /\ Calls("grant")[1].arg.body.role = <<"r", "e", "a", "d", "e", "r">>
    /\ Calls("grant")[2].arg.body.role = <<"w", "r", "i", "t", "e", "r">>
====
